---- MODULE Spec2Model ----
(***************************************************************************)
(* Model of the MCP client of mcp-demo (src/client.py): the session loop   *)
(* chat_loop, the per-query pipeline process_query and the plan generator  *)
(* plan_tool_usage.                                                        *)
(*                                                                         *)
(* Text is modelled as a sequence of symbols.  A symbol is a single        *)
(* character ("{", "}", " ", "`", "s", ...) or an atomic word that holds   *)
(* no brace, no whitespace, no backtick and no backslash (a tool name, a   *)
(* JSON object written by the model, a timestamp).  Python's string        *)
(* operations (strip, startswith, lower, re.search, json.loads) are        *)
(* computed on these sequences symbol by symbol.                           *)
(***************************************************************************)
EXTENDS Integers, Sequences, FiniteSets, TLC

\* ------------------------------------------------------------------ bounds

\* longest plan (JSON array) the language model answers with
MaxPlanLen == 2
\* number of input() calls of one session
MaxQueries == 2

\* ------------------------------------------------------------- str methods

\* the characters str.strip() removes when called without argument
Whitespace == {" ", "\t", "\n", "\r"}

RECURSIVE lstrip(_, _)
lstrip(s, chars) ==
    IF s # <<>> /\ Head(s) \in chars THEN lstrip(Tail(s), chars) ELSE s

RECURSIVE rstrip(_, _)
rstrip(s, chars) ==
    IF s # <<>> /\ s[Len(s)] \in chars
    THEN rstrip(SubSeq(s, 1, Len(s) - 1), chars)
    ELSE s

\* str.strip(chars): removes every leading and trailing symbol that is in chars
strip(s, chars) == rstrip(lstrip(s, chars), chars)

startswith(s, p) == Len(p) <= Len(s) /\ SubSeq(s, 1, Len(p)) = p

endswith(s, p) ==
    Len(p) <= Len(s) /\ SubSeq(s, Len(s) - Len(p) + 1, Len(s)) = p

\* str.lower() on one symbol: the model's upper-case characters are Q U I T
lowerSym(c) ==
    CASE c = "Q" -> "q"
      [] c = "U" -> "u"
      [] c = "I" -> "i"
      [] c = "T" -> "t"
      [] OTHER -> c

lower(s) == [i \in 1..Len(s) |-> lowerSym(s[i])]

\* ------------------------------------------------------------ dict methods
\* A Python dict is a sequence of (key, val) pairs in insertion order.

Pair(k, v) == [key |-> k, val |-> v]

DictHas(d, k) == \E i \in 1..Len(d) : d[i].key = k

\* dict.get(k, default)
DictGet(d, k, default) ==
    IF DictHas(d, k)
    THEN d[CHOOSE i \in 1..Len(d) : d[i].key = k].val
    ELSE default

\* d[k] = v: overwrites the entry in place, or appends a new one
DictSet(d, k, v) ==
    IF DictHas(d, k)
    THEN [i \in 1..Len(d) |-> IF d[i].key = k THEN Pair(k, v) ELSE d[i]]
    ELSE Append(d, Pair(k, v))

\* ------------------------------------------------- re.search (client.py:154)
\* The pattern is the raw string r"```(?:json)?\\s*([\s\S]+?)\\s*```": in a raw
\* string \\ is the regular expression for ONE LITERAL BACKSLASH and the s*
\* after it is "zero or more letters s".  So the pattern reads
\*     ```  (json)?  \  s*  (any symbols, at least one, lazy)  \  s*  ```

\* the backtick character (a TLA+ string cannot hold one)
Backtick == "backtick"

Fence == <<Backtick, Backtick, Backtick>>

JsonTag == <<"j", "s", "o", "n">>

Backslash == "\\"

IsAt(c, i, w) ==
    i >= 1 /\ i + Len(w) - 1 <= Len(c) /\ SubSeq(c, i, i + Len(w) - 1) = w

\* number of consecutive symbols sym from position i on
RECURSIVE RunLen(_, _, _)
RunLen(c, i, sym) ==
    IF i >= 1 /\ i <= Len(c) /\ c[i] = sym THEN 1 + RunLen(c, i + 1, sym) ELSE 0

\* the pattern's end \\s*``` matches from position e on
FenceTail(c, e) ==
    /\ e >= 1 /\ e <= Len(c) /\ c[e] = Backslash
    /\ \E j \in 0..RunLen(c, e + 1, "s") : IsAt(c, e + 1 + j, Fence)

\* where the pattern's opening fence may stand
FenceStarts(c) == { i \in 1..Len(c) : IsAt(c, i, Fence) }

\* where the pattern's end may begin
FenceTails(c) == { e \in 1..Len(c) : FenceTail(c, e) }

\* every way the pattern matches: it starts at i, takes the tag or not, lets
\* the first s* take k letters, and the group ends right before position e
FenceMatches(c) ==
    { m \in [i : FenceStarts(c), tag : {0, 1}, k : 0..Len(c), e : FenceTails(c)] :
        /\ (m.tag = 1 => IsAt(c, m.i + 3, JsonTag))
        /\ LET p1 == m.i + 3 + 4 * m.tag IN
             /\ p1 <= Len(c) /\ c[p1] = Backslash
             /\ m.k <= RunLen(c, p1 + 1, "s")
             /\ m.e >= p1 + 1 + m.k + 1 }

\* the backtracking order of re: leftmost start, the optional tag taken
\* first, the greedy s* longest first, the lazy group shortest first
Preferred(a, b) ==
    \/ a.i < b.i
    \/ a.i = b.i /\ a.tag > b.tag
    \/ a.i = b.i /\ a.tag = b.tag /\ a.k > b.k
    \/ a.i = b.i /\ a.tag = b.tag /\ a.k = b.k /\ a.e <= b.e

\* re.search(pattern, content): whether it matched, and match.group(1)
re_search(c) ==
    LET M == FenceMatches(c) IN
    IF M = {}
    THEN [found |-> FALSE, group1 |-> <<>>]
    ELSE LET m == CHOOSE a \in M : \A b \in M : Preferred(a, b)
             p3 == m.i + 3 + 4 * m.tag + 1 + m.k
         IN  [found |-> TRUE, group1 |-> SubSeq(c, p3, m.e - 1)]

\* ------------------------------------------------------------- plan values
\* A Python value of a step argument: a str (its symbols) or a non-str number.
StrVal(s) == [str |-> TRUE, v |-> s]

NumVal(n) == [str |-> FALSE, v |-> <<n>>]

\* tool names
SearchGoogle == <<"search_google">>

AnalyzeSentiment == <<"analyze_sentiment">>

SendEmail == <<"send_email_with_attachment">>

\* "{{" + body + "}}"
Placeholder(body) == <<"{", "{">> \o body \o <<"}", "}">>

\* A JSON value of the parsed array: an object (kind "obj") that may lack the
\* key "name" or the key "arguments" or hold a non-mapping under "arguments",
\* or a value that is no object at all (kind "other").
Step(name, args) ==
    [kind |-> "obj", hasName |-> TRUE, name |-> name,
     argsKind |-> "dict", arguments |-> args]

NoArguments(name) ==
    [kind |-> "obj", hasName |-> TRUE, name |-> name,
     argsKind |-> "missing", arguments |-> <<>>]

BadArguments(name) ==
    [kind |-> "obj", hasName |-> TRUE, name |-> name,
     argsKind |-> "other", arguments |-> <<>>]

NotAnObject ==
    [kind |-> "other", hasName |-> FALSE, name |-> <<>>,
     argsKind |-> "missing", arguments |-> <<>>]

\* the JSON values the language model writes as elements of its array, each
\* one symbol of the response text
ElemTokens == {"o1", "o2", "o3", "o4", "o5", "o6", "o7", "o8", "7"}

JsonValue(tok) ==
    CASE tok = "o1" ->
           Step(SearchGoogle, <<Pair("keyword", StrVal(<<"x">>))>>)
      [] tok = "o2" ->
           Step(AnalyzeSentiment,
                <<Pair("text", StrVal(Placeholder(SearchGoogle)))>>)
      [] tok = "o3" ->
           Step(AnalyzeSentiment,
                <<Pair("text", StrVal(Placeholder(<<" ">> \o SearchGoogle \o <<" ">>))),
                  Pair("filename", StrVal(<<"r.md">>))>>)
      [] tok = "o4" ->
           Step(SendEmail,
                <<Pair("to", NumVal("7")),
                  Pair("body", StrVal(Placeholder(AnalyzeSentiment)))>>)
      [] tok = "o5" ->
           Step(SendEmail,
                <<Pair("attachment_path",
                       StrVal(Placeholder(<<"\t">> \o AnalyzeSentiment)))>>)
      [] tok = "o6" ->
           Step(SearchGoogle,
                <<Pair("keyword", StrVal(Placeholder(SearchGoogle)))>>)
      [] tok = "o7" -> NoArguments(SearchGoogle)
      [] tok = "o8" -> BadArguments(AnalyzeSentiment)
      [] OTHER -> NotAnObject

\* ------------------------------------------------- json.loads (client.py:161)
\* JSON ignores whitespace between tokens.  The text is a JSON document when
\* it is one value, or "[" values separated by "," "]".  The result tells
\* whether the text parsed (else json.loads raises), whether the value is a
\* list, and the value: the list's elements, or the one value that is no list.
JsonWS == {" ", "\t", "\n", "\r"}

NotJsonWS(x) == x \notin JsonWS

json_loads(text) ==
    LET toks == SelectSeq(text, NotJsonWS)
        n == Len(toks)
        inner == SubSeq(toks, 2, n - 1)
    IN  IF n = 1 /\ toks[1] \in ElemTokens
        THEN [ok |-> TRUE, islist |-> FALSE, val |-> <<JsonValue(toks[1])>>]
        ELSE IF /\ n >= 2 /\ toks[1] = "[" /\ toks[n] = "]"
                /\ (Len(inner) = 0 \/ Len(inner) % 2 = 1)
                /\ \A i \in 1..Len(inner) :
                      IF i % 2 = 1 THEN inner[i] \in ElemTokens ELSE inner[i] = ","
        THEN [ok |-> TRUE, islist |-> TRUE,
              val |-> [i \in 1..((Len(inner) + 1) \div 2) |->
                          JsonValue(inner[2 * i - 1])]]
        ELSE [ok |-> FALSE, islist |-> FALSE, val |-> <<>>]

\* -------------------------------------------- plan_tool_usage (client.py:123)

\* lines 153-158: the reply is stripped; the group of the pattern, when the
\* pattern matches, else the whole stripped reply, is the JSON text
json_text_of(reply) ==
    LET content == strip(reply, Whitespace)
        match == re_search(content)
    IN  IF match.found THEN match.group1 ELSE content

\* a generator that returns whatever parsed, list or not
plan_tool_usage_unchecked(reply) ==
    LET plan == json_loads(json_text_of(reply))
    IN  IF plan.ok THEN plan.val ELSE <<>>

\* lines 153-165: from the model's reply (message.content) to the returned
\* plan; a text that does not parse (the except clause) or a value that is
\* no list gives the empty plan
plan_tool_usage(reply) ==
    LET plan == json_loads(json_text_of(reply))
    IN  IF plan.ok /\ plan.islist THEN plan.val ELSE <<>>

\* ------------------------------------------------------------ environment

\* the lines input() returns: a word, with or without blanks around it
Words ==
    { <<"q", "u", "i", "t">>, <<"Q", "U", "I", "T">>, <<"Q", "u", "i", "t">>,
      <<"q", "u", "i", "t", "s">>, <<>>, <<"news">> }

Pads == { <<>>, <<" ">> }

RawInputs == { l \o w \o r : l \in Pads, w \in Words, r \in Pads }

\* the values of datetime.now().strftime('%Y%m%d_%H%M%S')
Timestamps == { "20250101_000000", "20250101_000001" }

\* the JSON arrays of at most MaxPlanLen elements, as token sequences
TokSeqs == UNION { [1..k -> ElemTokens] : k \in 0..MaxPlanLen }

RECURSIVE Joined(_)
Joined(ts) ==
    IF Len(ts) = 0 THEN <<>>
    ELSE IF Len(ts) = 1 THEN <<ts[1]>>
    ELSE <<ts[1], ",">> \o Joined(Tail(ts))

\* the text of a JSON array
ArrayText(ts) == <<"[">> \o Joined(ts) \o <<"]">>

\* a payload in a fenced code block: fence, tag, newline, payload, newline, fence
Fenced(tag, payload) ==
    Fence \o tag \o <<"\n">> \o payload \o <<"\n">> \o Fence

\* a payload between a fence followed by the two characters \ s and the two
\* characters \ s followed by a fence
FencedBackslashS(tag, payload) ==
    Fence \o tag \o <<Backslash, "s">> \o payload \o <<Backslash, "s">> \o Fence

\* replies that are no JSON array
OtherReplies ==
    { <<"I", " ", "cannot", " ", "help", " ", "with", " ", "that">>,
      <<"o1">>, <<"7">>, <<"[", "o1", ",">>,
      Fenced(JsonTag, <<"o1">>) }

\* what the language model may answer (response.choices[0].message.content)
ModelReplies ==
    UNION { { ArrayText(ts),
              Fenced(JsonTag, ArrayText(ts)),
              Fenced(<<>>, ArrayText(ts)) } : ts \in TokSeqs }
    \cup UNION { { <<"\n">> \o ArrayText(ts) \o <<" ">>,
                   FencedBackslashS(JsonTag, ArrayText(ts)) } :
                 ts \in { t \in TokSeqs : Len(t) <= 1 } }
    \cup OtherReplies

\* what call_tool may return: result.content, a list of content items
ToolResults ==
    { <<[text |-> <<"first">>]>>,
      <<[text |-> <<"second">>], [text |-> <<"extra">>]>> }

\* server.py:100
output_dir == <<"./sentiment_reports">>

\* os.path.join(dir, name): a name that starts with "/" replaces the directory
os_path_join(dir, name) ==
    IF name # <<>> /\ name[1] = "/" THEN name ELSE dir \o <<"/">> \o name

\* server.py:100-110: the paths analyze_sentiment may write its report to and
\* return, given the filename argument (an empty one is replaced by a name
\* made of the server's clock)
analyze_sentiment(filename) ==
    { os_path_join(output_dir, f) :
        f \in IF filename = <<>>
              THEN { <<"sentiment_", ts, ".md">> : ts \in Timestamps }
              ELSE { filename } }

\* what call_tool may return for a tool and its arguments: the string
\* analyze_sentiment returns is the one content item of its result
ToolResultsOf(name, args) ==
    IF name = AnalyzeSentiment
    THEN { <<[text |-> p]>> :
             p \in analyze_sentiment(DictGet(args, "filename", StrVal(<<>>)).v) }
    ELSE ToolResults

\* --------------------------------------------------------------- the state

VARIABLES
    pc,            \* where chat_loop / process_query stands
    inp,           \* the line input() returned, until line 113 strips it
    query,         \* chat_loop's query (line 113)
    md_filename,   \* process_query, line 70
    md_path,       \* process_query, line 71
    reply,         \* the language model's reply (plan_tool_usage, line 153)
    tool_plan,     \* process_query, line 76
    idx,           \* position of the for loop of line 80 in tool_plan
    tool_outputs,  \* process_query, line 77
    messages,      \* process_query, lines 74 and 98
    calls,         \* history: the call_tool invocations of the running query
    nplanned,      \* history: the length of the last query's plan
    ncalls,        \* history: how many call_tool invocations the last query made
    raisedAt,      \* history: the step whose call_tool raised in the last query
    outcome,       \* history: "none", "running", "summary" or "error"
    printed,       \* what chat_loop printed for the last query (line 118 or 121)
    nread,         \* history: number of input() calls so far
    queryFailed,   \* history: some query of the session has raised
    everStored,    \* history: some query of the session has stored an output
    nlist,         \* history: list_tools() calls of the last query (line 56)
    nllm           \* history: language model calls of the last query (line 147)

vars ==
    <<pc, inp, query, md_filename, md_path, reply, tool_plan, idx, tool_outputs,
      messages, calls, nplanned, ncalls, raisedAt, outcome, printed, nread,
      queryFailed, everStored, nlist, nllm>>

\* the locals of process_query
locals == <<md_filename, md_path, reply, tool_plan, idx, tool_outputs, messages, calls>>

Init ==
    /\ pc = "input"
    /\ inp = <<>>
    /\ query = <<>>
    /\ md_filename = <<>>
    /\ md_path = <<>>
    /\ reply = <<>>
    /\ tool_plan = <<>>
    /\ idx = 0
    /\ tool_outputs = <<>>
    /\ messages = <<>>
    /\ calls = <<>>
    /\ nplanned = 0
    /\ ncalls = 0
    /\ raisedAt = 0
    /\ outcome = "none"
    /\ printed = <<>>
    /\ nread = 0
    /\ queryFailed = FALSE
    /\ everStored = FALSE
    /\ nlist = 0
    /\ nllm = 0

\* process_query's frame ends (return or exception): its locals are gone
FrameGone ==
    /\ md_filename' = <<>>
    /\ md_path' = <<>>
    /\ reply' = <<>>
    /\ tool_plan' = <<>>
    /\ idx' = 0
    /\ tool_outputs' = <<>>
    /\ messages' = <<>>
    /\ calls' = <<>>

\* ------------------------------------------------ chat_loop (client.py:108)

\* line 114: the sentinel 'quit'
Quit == <<"q", "u", "i", "t">>

\* line 113: query = input(...).strip()
stripped_input(raw) == strip(raw, Whitespace)

\* a comparison that forgets lower()
is_quit_case_sensitive(q) == q = Quit

\* line 114: query.lower() == 'quit'
is_quit(q) == lower(q) = Quit

\* an except clause that ends the loop
Except_terminating(e) ==
    /\ pc' = "done"
    /\ outcome' = "error"
    /\ printed' = <<"error: ">> \o e

\* lines 120-121: the except clause prints the error; the while loop goes on
Except(e) ==
    /\ pc' = "input"
    /\ outcome' = "error"
    /\ printed' = <<"error: ">> \o e

\* line 113: input() returns a line
ReadInput ==
    /\ pc = "input"
    /\ nread < MaxQueries
    /\ \E raw \in RawInputs : inp' = raw
    /\ pc' = "read"
    /\ nread' = nread + 1
    /\ UNCHANGED <<query, locals, nplanned, ncalls, raisedAt, outcome, printed,
                   queryFailed, everStored, nlist, nllm>>

\* a loop that ends when input() raises
InputRaises_ending ==
    /\ pc = "input"
    /\ nread < MaxQueries
    /\ nread' = nread + 1
    /\ pc' = "done"
    /\ UNCHANGED <<inp, query, locals, nplanned, ncalls, raisedAt, outcome,
                   printed, queryFailed, everStored, nlist, nllm>>

\* line 113: input() raises (end of input); caught at line 120
InputRaises ==
    /\ pc = "input"
    /\ nread < MaxQueries
    /\ nread' = nread + 1
    /\ Except(<<"EOFError">>)
    /\ UNCHANGED <<inp, query, locals, nplanned, ncalls, raisedAt, queryFailed,
                   everStored, nlist, nllm>>

\* lines 113-115: the stripped line is the sentinel: break
QuitLoop ==
    /\ pc = "read"
    /\ is_quit(stripped_input(inp))
    /\ query' = stripped_input(inp)
    /\ inp' = <<>>
    /\ pc' = "done"
    /\ UNCHANGED <<locals, nplanned, ncalls, raisedAt, outcome, printed, nread,
                   queryFailed, everStored, nlist, nllm>>

\* ------------------------------------------- process_query (client.py:54)

\* line 70
filename_of(q, ts) == <<"search_">> \o q \o <<"_", ts, ".md">>

\* line 71: os.path.join("./search_results", md_filename); md_filename never
\* starts with "/", so the join is the directory, "/", the name
path_of(fname) == <<"./search_results", "/">> \o fname

\* line 73
augmented(q, fname, path) ==
    strip(q, Whitespace) \o <<" [md_filename=">> \o fname
        \o <<"] [md_path=">> \o path \o <<"]">>

\* lines 113-117 and 54-76: the line is no sentinel; process_query lists the
\* tools, builds the artifact names and the user message, and enters
\* plan_tool_usage, which is about to call the model (line 147)
StartQuery ==
    /\ pc = "read"
    /\ ~ is_quit(stripped_input(inp))
    /\ \E ts \in Timestamps :
         LET q == stripped_input(inp)
             fname == filename_of(q, ts)
         IN  /\ query' = q
             /\ md_filename' = fname
             /\ md_path' = path_of(fname)
             /\ messages' = <<[role |-> "user", tool_call_id |-> <<>>,
                               content |-> augmented(q, fname, path_of(fname))]>>
    /\ inp' = <<>>
    /\ pc' = "planning"
    /\ outcome' = "running"
    /\ printed' = <<>>
    /\ nplanned' = 0
    /\ ncalls' = 0
    /\ raisedAt' = 0
    /\ nlist' = 1
    /\ nllm' = 0
    /\ UNCHANGED <<reply, tool_plan, idx, tool_outputs, calls, nread, queryFailed,
                   everStored>>

\* a planner whose dict of outputs is made once per session: a query that
\* follows one that stored an output starts with an output in it
PlanReturns_shared_outputs ==
    /\ pc = "planning"
    /\ \E r \in ModelReplies :
         /\ reply' = r
         /\ tool_plan' = plan_tool_usage(r)
         /\ nplanned' = Len(plan_tool_usage(r))
    /\ tool_outputs' = IF everStored
                       THEN <<Pair(SearchGoogle, StrVal(<<"first">>))>>
                       ELSE <<>>
    /\ idx' = 1
    /\ nllm' = nllm + 1
    /\ pc' = "exec"
    /\ UNCHANGED <<inp, query, md_filename, md_path, messages, calls, ncalls,
                   raisedAt, outcome, printed, nread, queryFailed, everStored,
                   nlist>>

\* lines 76-77: the model answers; plan_tool_usage returns the plan
PlanReturns ==
    /\ pc = "planning"
    /\ \E r \in ModelReplies :
         /\ reply' = r
         /\ tool_plan' = plan_tool_usage(r)
         /\ nplanned' = Len(plan_tool_usage(r))
    /\ tool_outputs' = <<>>
    /\ idx' = 1
    /\ nllm' = nllm + 1
    /\ pc' = "exec"
    /\ UNCHANGED <<inp, query, md_filename, md_path, messages, calls, ncalls,
                   raisedAt, outcome, printed, nread, queryFailed, everStored,
                   nlist>>

\* a planner that calls the language model again when the call raised
PlanRaises_retrying ==
    /\ pc = "planning"
    /\ nllm < 2
    /\ nllm' = nllm + 1
    /\ UNCHANGED <<pc, inp, query, locals, nplanned, ncalls, raisedAt, outcome,
                   printed, nread, queryFailed, everStored, nlist>>

\* line 147: the call of the language model raises (outside the try of
\* plan_tool_usage); the error leaves process_query
PlanRaises ==
    /\ pc = "planning"
    /\ nllm' = nllm + 1
    /\ Except(<<"APIError">>)
    /\ FrameGone
    /\ queryFailed' = TRUE
    /\ UNCHANGED <<inp, query, nplanned, ncalls, raisedAt, nread, everStored,
                   nlist>>

\* lines 81-84: step["name"], step["arguments"] and tool_args.items() succeed
WellFormed(step) ==
    step.kind = "obj" /\ step.hasName /\ step.argsKind = "dict"

\* the exception lines 81-84 raise on a step that is not well formed
StepError(step) ==
    IF step.kind # "obj" THEN <<"TypeError">>
    ELSE IF ~ step.hasName \/ step.argsKind = "missing" THEN <<"KeyError">>
    ELSE <<"AttributeError">>

\* line 85
is_placeholder(val) ==
    val.str /\ startswith(val.v, <<"{", "{">>) /\ endswith(val.v, <<"}", "}">>)

\* a resolver that strips the braces only
ref_key_braces_only(v) == strip(v, {"{", "}"})

\* line 86: val.strip("{} ")
ref_key_of(v) == strip(v, {"{", "}", " "})

\* a resolver whose lookup defaults to the empty string
resolve_or_empty(val, outs) ==
    IF is_placeholder(val)
    THEN DictGet(outs, ref_key_of(val.v), StrVal(<<>>))
    ELSE val

\* lines 85-88 for one value: tool_outputs.get(ref_key, val)
resolve(val, outs) ==
    IF is_placeholder(val) THEN DictGet(outs, ref_key_of(val.v), val) ELSE val

\* lines 84-88: every value of tool_args
resolve_args(args, outs) ==
    [i \in 1..Len(args) |-> Pair(args[i].key, resolve(args[i].val, outs))]

\* defaults that are written over what the plan supplied
with_defaults_overwriting(name, args, fname, path) ==
    LET a1 == IF name = AnalyzeSentiment
              THEN DictSet(args, "filename", StrVal(fname))
              ELSE args
    IN  IF name = SendEmail
        THEN DictSet(a1, "attachment_path", StrVal(path))
        ELSE a1

\* defaults that hand the path to analyze_sentiment and the name to the mail
with_defaults_swapped(name, args, fname, path) ==
    LET a1 == IF name = AnalyzeSentiment /\ ~ DictHas(args, "filename")
              THEN DictSet(args, "filename", StrVal(path))
              ELSE args
    IN  IF name = SendEmail /\ ~ DictHas(a1, "attachment_path")
        THEN DictSet(a1, "attachment_path", StrVal(fname))
        ELSE a1

\* lines 90-93
with_defaults(name, args, fname, path) ==
    LET a1 == IF name = AnalyzeSentiment /\ ~ DictHas(args, "filename")
              THEN DictSet(args, "filename", StrVal(fname))
              ELSE args
    IN  IF name = SendEmail /\ ~ DictHas(a1, "attachment_path")
        THEN DictSet(a1, "attachment_path", StrVal(path))
        ELSE a1

\* lines 80-95: the loop takes the next step, rewrites its arguments in
\* place and invokes call_tool
StepInvoke ==
    /\ pc = "exec"
    /\ idx <= Len(tool_plan)
    /\ WellFormed(tool_plan[idx])
    /\ LET step == tool_plan[idx]
           args == with_defaults(step.name,
                                 resolve_args(step.arguments, tool_outputs),
                                 md_filename, md_path)
       IN  /\ tool_plan' = [tool_plan EXCEPT ![idx].arguments = args]
           /\ calls' = Append(calls, [name |-> step.name, args |-> args,
                                      seen |-> tool_outputs,
                                      returned |-> FALSE, content |-> <<>>,
                                      text |-> <<>>])
    /\ ncalls' = ncalls + 1
    /\ pc' = "calling"
    /\ UNCHANGED <<inp, query, md_filename, md_path, reply, idx, tool_outputs,
                   messages, nplanned, raisedAt, outcome, printed, nread,
                   queryFailed, everStored, nlist, nllm>>

\* an executor that skips a step that is not well formed
StepMalformed_skipping ==
    /\ pc = "exec"
    /\ idx <= Len(tool_plan)
    /\ ~ WellFormed(tool_plan[idx])
    /\ idx' = idx + 1
    /\ UNCHANGED <<pc, inp, query, md_filename, md_path, reply, tool_plan,
                   tool_outputs, messages, calls, nplanned, ncalls, raisedAt,
                   outcome, printed, nread, queryFailed, everStored, nlist, nllm>>

\* lines 81-84 raise on a step that is not well formed
StepMalformed ==
    /\ pc = "exec"
    /\ idx <= Len(tool_plan)
    /\ ~ WellFormed(tool_plan[idx])
    /\ Except(StepError(tool_plan[idx]))
    /\ FrameGone
    /\ queryFailed' = TRUE
    /\ UNCHANGED <<inp, query, nplanned, ncalls, raisedAt, nread, everStored,
                   nlist, nllm>>

\* a store that keeps the first output of a tool (dict.setdefault)
store_keep_first(outs, name, text) ==
    IF DictHas(outs, name) THEN outs ELSE Append(outs, Pair(name, StrVal(text)))

\* line 97: tool_outputs[tool_name] = text
store(outs, name, text) == DictSet(outs, name, StrVal(text))

\* a loop that skips the step after each executed one
next_step_skipping(i) == i + 2

\* line 80: the for loop moves to the next step
next_step(i) == i + 1

\* a transcript that keeps one record per tool: the record of a tool that
\* ran before is replaced
tool_message_per_tool(msgs, name, text) ==
    LET rec == [role |-> "tool", tool_call_id |-> name, content |-> text]
        old == { i \in 1..Len(msgs) : msgs[i].role = "tool" /\ msgs[i].tool_call_id = name }
    IN  IF old = {} THEN Append(msgs, rec)
        ELSE [i \in 1..Len(msgs) |-> IF i \in old THEN rec ELSE msgs[i]]

\* lines 98-102: messages.append({"role": "tool", ...})
tool_message(msgs, name, text) ==
    Append(msgs, [role |-> "tool", tool_call_id |-> name, content |-> text])

\* lines 95-102: call_tool returns; the first content item's text is stored
\* and appended to the transcript
CallReturns ==
    /\ pc = "calling"
    /\ \E result \in ToolResultsOf(tool_plan[idx].name, tool_plan[idx].arguments) :
         LET name == tool_plan[idx].name
             text == result[1].text
         IN  /\ tool_outputs' = store(tool_outputs, name, text)
             /\ messages' = tool_message(messages, name, text)
             /\ calls' = [calls EXCEPT ![Len(calls)].returned = TRUE,
                                       ![Len(calls)].content = result,
                                       ![Len(calls)].text = text]
    /\ idx' = next_step(idx)
    /\ everStored' = TRUE
    /\ pc' = "exec"
    /\ UNCHANGED <<inp, query, md_filename, md_path, reply, tool_plan, nplanned,
                   ncalls, raisedAt, outcome, printed, nread, queryFailed, nlist,
                   nllm>>

\* an executor that swallows the error of a call and goes on with the plan
CallRaises_recovering ==
    /\ pc = "calling"
    /\ raisedAt' = idx
    /\ idx' = idx + 1
    /\ pc' = "exec"
    /\ UNCHANGED <<inp, query, md_filename, md_path, reply, tool_plan,
                   tool_outputs, messages, calls, nplanned, ncalls, outcome,
                   printed, nread, queryFailed, everStored, nlist, nllm>>

\* line 95: call_tool raises; nothing in process_query catches it
CallRaises ==
    /\ pc = "calling"
    /\ raisedAt' = idx
    /\ Except(<<"ToolError">>)
    /\ FrameGone
    /\ queryFailed' = TRUE
    /\ UNCHANGED <<inp, query, nplanned, ncalls, nread, everStored, nlist, nllm>>

\* line 104
summary_of(path) == <<"saved in: ">> \o path

\* a summary that also reports the output stored last
Finish_reporting_outputs ==
    /\ pc = "exec"
    /\ idx > Len(tool_plan)
    /\ outcome' = "summary"
    /\ printed' = <<"AI: ">> \o summary_of(md_path)
                    \o (IF tool_outputs = <<>> THEN <<>>
                        ELSE tool_outputs[Len(tool_outputs)].val.v)
    /\ pc' = "input"
    /\ FrameGone
    /\ UNCHANGED <<inp, query, nplanned, ncalls, raisedAt, nread, queryFailed,
                   everStored, nlist, nllm>>

\* lines 104-106 and 117-118: the loop is over; the summary is returned and
\* chat_loop prints it
Finish ==
    /\ pc = "exec"
    /\ idx > Len(tool_plan)
    /\ outcome' = "summary"
    /\ printed' = <<"AI: ">> \o summary_of(md_path)
    /\ pc' = "input"
    /\ FrameGone
    /\ UNCHANGED <<inp, query, nplanned, ncalls, raisedAt, nread, queryFailed,
                   everStored, nlist, nllm>>

Next ==
    \/ ReadInput
    \/ InputRaises
    \/ QuitLoop
    \/ StartQuery
    \/ PlanReturns
    \/ PlanRaises
    \/ StepInvoke
    \/ StepMalformed
    \/ CallReturns
    \/ CallRaises
    \/ Finish

Spec == Init /\ [][Next]_vars

\* lines 113-115: once input() has returned, strip(), lower(), the comparison
\* and the break are straight-line code that nothing can hold up
FairSpec == Spec /\ WF_vars(QuitLoop)

\* ================================================================ claims

\* the plan as plan_tool_usage returned it, before line 88 and lines 91-93
\* rewrite the arguments of the executed steps in place
Planned == plan_tool_usage(reply)

Executing == pc \in {"exec", "calling"}

\* the largest element of a non-empty set of numbers
Last(S) == CHOOSE x \in S : \A y \in S : y <= x

\* C1: the call_tool invocations of a query follow its plan: while the plan
\* runs, the i-th invocation carries the name of the i-th step and the loop
\* has made exactly one invocation per step it has passed; when the loop is
\* over every one of the N steps has been invoked once, and a query that
\* returned its summary made exactly N invocations.
C1_CallsFollowPlan ==
    /\ Executing =>
         /\ Len(calls) = (IF pc = "exec" THEN idx - 1 ELSE idx)
         /\ Len(calls) <= Len(tool_plan)
         /\ ncalls = Len(calls)
         /\ \A i \in 1..Len(calls) : calls[i].name = Planned[i].name
         /\ \A i \in 1..Len(calls) : calls[i].returned \/ (i = idx /\ pc = "calling")
    /\ (pc = "exec" /\ idx > Len(tool_plan)) => Len(calls) = Len(Planned)
    /\ outcome = "summary" => ncalls = nplanned

\* a two-step plan of two different tools has run to its end
C1_Witness ==
    /\ pc = "exec" /\ idx > Len(tool_plan)
    /\ Len(calls) = 2
    /\ calls[1].name = SearchGoogle /\ calls[2].name = AnalyzeSentiment
    /\ calls[1].returned /\ calls[2].returned

\* the value call_tool received under the key of the plan's i-th argument
Passed(c, orig, i) == DictGet(c.args, orig[i].key, StrVal(<<"absent">>))

\* C2 as stated: the candidate name is the placeholder with its braces and
\* the whitespace around it stripped; a stored output under that name
\* replaces the argument, else the argument stays the placeholder.
C2_AsStated ==
    Executing =>
      \A n \in 1..Len(calls) :
        LET orig == Planned[n].arguments IN
        \A i \in 1..Len(orig) :
          is_placeholder(orig[i].val) =>
            LET cand == strip(orig[i].val.v, {"{", "}"} \cup Whitespace) IN
            Passed(calls[n], orig, i) =
              (IF DictHas(calls[n].seen, cand)
               THEN DictGet(calls[n].seen, cand, orig[i].val)
               ELSE orig[i].val)

\* C2 (amended): the candidate name is the placeholder with the braces and
\* the space characters at its two ends stripped (a tab or a newline is not
\* stripped); a stored output under that name replaces the argument, else
\* the argument stays the placeholder string and nothing is raised.
C2_Resolution ==
    Executing =>
      \A n \in 1..Len(calls) :
        LET orig == Planned[n].arguments IN
        \A i \in 1..Len(orig) :
          is_placeholder(orig[i].val) =>
            LET cand == strip(orig[i].val.v, {"{", "}", " "}) IN
            Passed(calls[n], orig, i) =
              (IF DictHas(calls[n].seen, cand)
               THEN DictGet(calls[n].seen, cand, orig[i].val)
               ELSE orig[i].val)

\* "{{ search_google }}" was replaced by the stored output of search_google
C2_Witness ==
    /\ pc = "calling" /\ idx = 2
    /\ Planned[2].arguments[1].val =
         StrVal(Placeholder(<<" ">> \o SearchGoogle \o <<" ">>))
    /\ calls[1].name = SearchGoogle
    /\ calls[2].args[1].val = StrVal(calls[1].text)

\* C3 as stated: a JSON array in a fenced code block (fence, optional json
\* tag, newline, array, newline, fence) yields the plan of the raw array.
C3_FencedAsRaw ==
    \A ts \in TokSeqs : \A tag \in {<<>>, JsonTag} :
        (pc = "exec" /\ idx = 1 /\ reply = Fenced(tag, ArrayText(ts)))
            => tool_plan = plan_tool_usage(ArrayText(ts))

\* the reply's JSON text does not parse, or parses to a value that is no list
NoListPayload ==
    LET r == json_loads(json_text_of(reply)) IN ~ r.ok \/ ~ r.islist

\* C4: when the payload does not parse, or parses to a value that is no
\* list, plan_tool_usage returns the empty plan and raises nothing: the
\* executor stands at the end of its loop with no invocation made, and its
\* only step is to return the summary, which chat_loop prints.
C4_FailSoft ==
    /\ []((Executing /\ NoListPayload) =>
            /\ tool_plan = <<>> /\ nplanned = 0
            /\ pc = "exec" /\ idx = 1
            /\ calls = <<>> /\ ncalls = 0
            /\ outcome = "running")
    /\ [][(Executing /\ NoListPayload) =>
            /\ pc' = "input"
            /\ outcome' = "summary"
            /\ printed' = <<"AI: ">> \o summary_of(md_path)
            /\ ncalls' = 0]_vars

\* the model answered in prose and the plan is empty
C4_Witness ==
    /\ pc = "exec"
    /\ reply = <<"I", " ", "cannot", " ", "help", " ", "with", " ", "that">>
    /\ tool_plan = <<>>

\* C5: analyze_sentiment planned without "filename" is invoked with filename
\* = the report filename of this query, and send_email_with_attachment
\* planned without "attachment_path" is invoked with attachment_path = the
\* report path of this query (the filename under ./search_results).
C5_DefaultArguments ==
    Executing =>
      /\ \E ts \in Timestamps : md_filename = <<"search_">> \o query \o <<"_", ts, ".md">>
      /\ md_path = <<"./search_results", "/">> \o md_filename
      /\ \A n \in 1..Len(calls) :
           LET orig == Planned[n].arguments IN
           /\ (calls[n].name = AnalyzeSentiment /\ ~ DictHas(orig, "filename"))
                => /\ DictHas(calls[n].args, "filename")
                   /\ DictGet(calls[n].args, "filename", StrVal(<<>>)) = StrVal(md_filename)
           /\ (calls[n].name = SendEmail /\ ~ DictHas(orig, "attachment_path"))
                => /\ DictHas(calls[n].args, "attachment_path")
                   /\ DictGet(calls[n].args, "attachment_path", StrVal(<<>>)) = StrVal(md_path)

\* both tools were invoked in one plan without the argument
C5_Witness ==
    /\ pc = "calling" /\ idx = 2
    /\ calls[1].name = AnalyzeSentiment /\ ~ DictHas(Planned[1].arguments, "filename")
    /\ calls[2].name = SendEmail /\ ~ DictHas(Planned[2].arguments, "attachment_path")

ToolNames == {SearchGoogle, AnalyzeSentiment, SendEmail}

\* the invocations of tool t among the first n that have returned
ReturnedOf(t, n) == { j \in 1..n : calls[j].name = t /\ calls[j].returned }

C7_FailureBoundary ==
    /\ [](pc = "planning" =>
            /\ reply = <<>> /\ tool_plan = <<>> /\ idx = 0
            /\ tool_outputs = <<>> /\ calls = <<>>
            /\ Len(messages) = 1 /\ messages[1].role = "user"
            /\ nplanned = 0 /\ ncalls = 0 /\ raisedAt = 0
            /\ outcome = "running" /\ printed = <<>>)
    /\ [][(pc \in {"planning", "exec", "calling"} /\ outcome' = "error")
            => /\ pc' = "input"
               /\ queryFailed'
               /\ printed' # <<>> /\ Head(printed') = "error: "
               /\ nread' = nread]_vars

\* after a query that raised, a later query of the session ran its two
\* steps and returned its summary
C7_Witness ==
    /\ queryFailed
    /\ outcome = "summary" /\ nplanned = 2 /\ ncalls = 2
    /\ pc = "input"

\* C8 as stated: the loop ends exactly when the line that was read is a
\* case-insensitive exact match of 'quit'.
C8_AsStated ==
    [][pc = "read" => ((pc' = "done") <=> (lower(inp) = Quit))]_vars

\* C8 (amended): the loop ends exactly when the line that was read, with the
\* whitespace around it stripped, is a case-insensitive match of 'quit'; it
\* then ends before any processing, and for good; every other line, the
\* empty one included, is forwarded (stripped) to process_query.
C8_QuitSentinel ==
    [][/\ pc # "done"
       /\ pc = "read" =>
            /\ (pc' = "done") <=> (lower(strip(inp, Whitespace)) = Quit)
            /\ pc' = "done" =>
                 UNCHANGED <<locals, nplanned, ncalls, raisedAt, outcome, printed>>
            /\ pc' # "done" =>
                 /\ pc' = "planning"
                 /\ query' = strip(inp, Whitespace)
                 /\ outcome' = "running"]_vars

\* the loop has ended on QUIT
C8_Witness == pc = "done" /\ query = <<"Q", "U", "I", "T">>

\* C9: when step n is resolved, ToolOutputs holds exactly the outputs of the
\* steps 1..n-1 (the latest per tool name); a placeholder naming a tool
\* that no earlier step invoked, the step's own tool included, is passed as
\* the literal placeholder string.
C9_ResolverSeesEarlierSteps ==
    Executing =>
      \A n \in 1..Len(calls) :
        LET seen == calls[n].seen
            orig == Planned[n].arguments
        IN  /\ \A k \in 1..Len(seen) : \E j \in 1..(n - 1) : calls[j].name = seen[k].key
            /\ \A j \in 1..(n - 1) :
                 (\A m \in (j + 1)..(n - 1) : calls[m].name # calls[j].name)
                   => /\ DictHas(seen, calls[j].name)
                      /\ DictGet(seen, calls[j].name, StrVal(<<>>)) = StrVal(calls[j].text)
            /\ \A i \in 1..Len(orig) : \A t \in ToolNames :
                 (/\ orig[i].val = StrVal(Placeholder(t))
                  /\ \A j \in 1..(n - 1) : calls[j].name # t)
                   => Passed(calls[n], orig, i) = orig[i].val

\* search_google, first step of its plan, was invoked with the placeholder
\* of its own name, and its output is stored by now
C9_Witness ==
    /\ pc = "exec" /\ Len(calls) = 1
    /\ calls[1].name = SearchGoogle
    /\ calls[1].args[1].val = StrVal(Placeholder(SearchGoogle))
    /\ DictHas(tool_outputs, SearchGoogle)

\* C10: once the call_tool of step k has raised, the query has ended with
\* the error reported by chat_loop: no summary, exactly k invocations (none
\* after step k, step k not invoked again), process_query left.
C10_NoRecovery ==
    raisedAt > 0 =>
      /\ outcome = "error"
      /\ printed # <<>> /\ Head(printed) = "error: "
      /\ ncalls = raisedAt
      /\ pc \in {"input", "read", "done"}
      /\ calls = <<>> /\ tool_plan = <<>>

\* the first call of a two-step plan raised
C10_Witness == raisedAt = 1 /\ nplanned = 2 /\ ncalls = 1 /\ outcome = "error"

\* C11: every query starts the execution of its plan with an empty
\* ToolOutputs, whatever earlier queries of the session stored: the first
\* step is resolved against the empty store, and every output a step is
\* resolved against, or that the store holds, is the text a completed
\* invocation of the same query returned.
C11_PerQueryOutputs ==
    /\ (pc = "exec" /\ idx = 1) => tool_outputs = <<>>
    /\ Executing =>
         /\ \A k \in 1..Len(tool_outputs) :
              \E j \in 1..Len(calls) :
                /\ calls[j].returned
                /\ calls[j].name = tool_outputs[k].key
                /\ StrVal(calls[j].text) = tool_outputs[k].val
         /\ \A n \in 1..Len(calls) :
              /\ n = 1 => calls[n].seen = <<>>
              /\ \A k \in 1..Len(calls[n].seen) :
                   \E j \in 1..(n - 1) :
                     /\ calls[j].name = calls[n].seen[k].key
                     /\ StrVal(calls[j].text) = calls[n].seen[k].val
              /\ \A i \in 1..Len(Planned[n].arguments) :
                   LET orig == Planned[n].arguments IN
                   \/ Passed(calls[n], orig, i) = orig[i].val
                   \/ \E j \in 1..(n - 1) :
                        Passed(calls[n], orig, i) = StrVal(calls[j].text)

\* an earlier query of the session stored an output of search_google (this
\* query has stored none yet), and the first step of this query is invoked
\* with {{search_google}} as the plan wrote it
C11_Witness ==
    /\ everStored
    /\ pc = "calling" /\ idx = 1 /\ Len(calls) = 1
    /\ Planned[1].arguments[1].val = StrVal(Placeholder(SearchGoogle))
    /\ calls[1].args[1].val = StrVal(Placeholder(SearchGoogle))

\* C12: a query that process_query has taken up has listed the catalog once
\* and not yet called the language model; the model is then called exactly
\* once, whether the call returns or raises, and never again in the query,
\* also not after an unparsable reply or a failed tool; every call_tool of
\* the query is made after that one planning call has returned.
C12_OnePlanningCall ==
    /\ [](/\ pc = "planning" => (nlist = 1 /\ nllm = 0 /\ ncalls = 0)
          /\ Executing => (nlist = 1 /\ nllm = 1)
          /\ outcome = "summary" => (nlist = 1 /\ nllm = 1)
          /\ ncalls > 0 => (nlist = 1 /\ nllm = 1))
    /\ [][/\ nllm' > nllm => (pc = "planning" /\ nlist = 1 /\ nllm = 0 /\ nllm' = 1)
          /\ ncalls' > ncalls => (pc = "exec" /\ nllm = 1 /\ nllm' = 1)
          /\ (pc \in {"planning", "exec", "calling"} /\ pc' = "input")
               => (nlist' = 1 /\ nllm' = 1)]_vars

\* the second tool of a two-step plan has failed: the query ended in an
\* error after one listing, one planning call and two invocations
C12_Witness ==
    /\ raisedAt = 2 /\ nplanned = 2 /\ ncalls = 2
    /\ outcome = "error" /\ pc = "input"
    /\ nlist = 1 /\ nllm = 1

\* C13: while a plan runs, the transcript is the user message followed by
\* one record per returned invocation, in the order of the plan: role
\* "tool", tool_call_id the step's tool name, content the text of the first
\* content item of the result, which is also the text stored in ToolOutputs
\* under that name when the record is appended; a step of the running query
\* leaves the transcript as it is or appends one record to it (on the
\* return of a call), so no record is removed or overwritten.
C13_Transcript ==
    /\ [](Executing =>
            LET k == Cardinality({ j \in 1..Len(calls) : calls[j].returned }) IN
            /\ Len(messages) = 1 + k
            /\ messages[1].role = "user"
            /\ \A j \in 1..k :
                 /\ calls[j].returned
                 /\ messages[1 + j] = [role |-> "tool",
                                       tool_call_id |-> Planned[j].name,
                                       content |-> calls[j].content[1].text]
            /\ (k > 0 /\ pc = "exec") =>
                 DictGet(tool_outputs, messages[1 + k].tool_call_id, StrVal(<<>>))
                   = StrVal(messages[1 + k].content))
    /\ [][(Executing /\ pc' \in {"exec", "calling"}) =>
            \/ messages' = messages /\ pc = "exec"
            \/ /\ pc = "calling"
               /\ Len(messages') = Len(messages) + 1
               /\ SubSeq(messages', 1, Len(messages)) = messages
               /\ messages'[Len(messages')].role = "tool"
               /\ DictGet(tool_outputs', messages'[Len(messages')].tool_call_id,
                          StrVal(<<>>))
                    = StrVal(messages'[Len(messages')].content)]_vars

\* one tool ran twice: the transcript holds the record of its first run and
\* the record of its second, of a result with two content items
C13_Witness ==
    /\ pc = "exec" /\ Len(calls) = 2 /\ Len(messages) = 3
    /\ messages[2].tool_call_id = messages[3].tool_call_id
    /\ messages[2].content = <<"first">>
    /\ messages[3].content = <<"second">>
    /\ Len(calls[2].content) = 2

\* the argument the default policy adds to a step: its key, or none
InjectedKey(name, orig) ==
    IF name = AnalyzeSentiment /\ ~ DictHas(orig, "filename")
    THEN <<"filename">>
    ELSE IF name = SendEmail /\ ~ DictHas(orig, "attachment_path")
    THEN <<"attachment_path">>
    ELSE <<>>

\* C14: the arguments call_tool receives for a step are the plan's arguments
\* of that step, key by key and in their order, where the only values that
\* differ are strings of the form {{...}} that an output stored earlier
\* replaced, followed by at most one argument, the injected default:
\* "filename" for analyze_sentiment and "attachment_path" for
\* send_email_with_attachment when the plan has no such key, nothing
\* otherwise.  So a "filename" or "attachment_path" of the plan is never
\* overwritten by the default, other tools get no injected argument, and
\* numbers and strings not of the form {{...}} are passed as they are.
C14_ArgumentFrame ==
    Executing =>
      \A n \in 1..Len(calls) :
        LET orig == Planned[n].arguments
            args == calls[n].args
            inj == InjectedKey(calls[n].name, orig)
        IN  /\ Len(args) = Len(orig) + Len(inj)
            /\ \A i \in 1..Len(orig) :
                 /\ args[i].key = orig[i].key
                 /\ args[i].val # orig[i].val =>
                      /\ orig[i].val.str
                      /\ Len(orig[i].val.v) >= 4
                      /\ SubSeq(orig[i].val.v, 1, 2) = <<"{", "{">>
                      /\ SubSeq(orig[i].val.v, Len(orig[i].val.v) - 1,
                                Len(orig[i].val.v)) = <<"}", "}">>
                      /\ \E k \in 1..Len(calls[n].seen) :
                           args[i].val = calls[n].seen[k].val
            /\ inj # <<>> => args[Len(args)].key = inj[1]
            /\ calls[n].name \notin {AnalyzeSentiment, SendEmail} => inj = <<>>

\* send_email_with_attachment was invoked with its number 7 untouched and a
\* default attachment_path, then analyze_sentiment with the "r.md" the
\* plan supplied as filename and no default
C14_Witness ==
    /\ pc = "calling" /\ idx = 2
    /\ calls[1].name = SendEmail
    /\ calls[1].args[1].val = NumVal("7")
    /\ Len(calls[1].args) = Len(Planned[1].arguments) + 1
    /\ calls[2].name = AnalyzeSentiment
    /\ DictGet(Planned[2].arguments, "filename", StrVal(<<>>)) = StrVal(<<"r.md">>)
    /\ DictGet(calls[2].args, "filename", StrVal(<<>>)) = StrVal(<<"r.md">>)
    /\ Len(calls[2].args) = Len(Planned[2].arguments)

\* C15: the summary a query returns is one fixed function of the artifact
\* path of that query: whenever process_query completes, whatever the plan
\* was (the empty plan too) and whatever the tools returned, chat_loop
\* prints "AI: " and the fixed text followed by the path.  Two completed
\* executions with the same path therefore return the same summary.
C15_SummaryFromPath ==
    [][(outcome = "running" /\ outcome' = "summary") =>
          /\ md_path = <<"./search_results", "/">> \o md_filename
          /\ printed' = <<"AI: ", "saved in: ">> \o md_path]_vars

\* a query with an empty plan has returned its summary in a session where
\* an earlier query ran a tool and stored its output
C15_Witness ==
    /\ outcome = "summary" /\ pc = "input"
    /\ everStored /\ nplanned = 0 /\ ncalls = 0
    /\ Len(printed) > 3 /\ printed[3] = "./search_results"

\* C16 as stated: when analyze_sentiment has run with the injected default
\* filename, the path it stored its report at, which it returned, is the
\* artifact path of the query: the path the client injects as
\* attachment_path and reports in the summary.
C16_SameLocation ==
    Executing =>
      \A n \in 1..Len(calls) :
        (/\ calls[n].name = AnalyzeSentiment
         /\ ~ DictHas(Planned[n].arguments, "filename")
         /\ calls[n].returned)
          => calls[n].text = md_path

\* the step is no object with a "name" and a mapping under "arguments"
Malformed(step) ==
    step.kind # "obj" \/ ~ step.hasName \/ step.argsKind # "dict"

\* C17: a reply that parses to a list is executed as it is, element by
\* element, whatever the elements are.  While it runs, no step at or after
\* a malformed one has been invoked; when the loop reaches the first
\* malformed step k, the steps 1..k-1 have been invoked in order and have
\* returned, and the next thing that happens is the error report of
\* chat_loop: k-1 invocations in all, what they stored is not undone, the
\* plan was not replaced by the empty one, and the loop asks for input.
C17_UnvalidatedSteps ==
    /\ [](Executing =>
            LET parsed == json_loads(json_text_of(reply)) IN
            /\ (parsed.ok /\ parsed.islist) =>
                 (Len(tool_plan) = Len(parsed.val) /\ nplanned = Len(parsed.val))
            /\ \A k \in 1..Len(Planned) :
                 Malformed(Planned[k]) => Len(calls) < k)
    /\ [][(pc = "exec" /\ idx <= Len(Planned) /\ Malformed(Planned[idx])) =>
            /\ Len(calls) = idx - 1
            /\ \A j \in 1..(idx - 1) :
                 calls[j].returned /\ calls[j].name = Planned[j].name
            /\ pc' = "input"
            /\ outcome' = "error"
            /\ printed' # <<>> /\ Head(printed') = "error: "
            /\ ncalls' = idx - 1
            /\ nplanned' = Len(Planned) /\ nplanned' > 0
            /\ everStored' = everStored]_vars

\* the second element of a two-element plan had no "arguments": the first
\* step was invoked and stored its output, no tool failed, and the query
\* ended with a KeyError reported
C17_Witness ==
    /\ outcome = "error" /\ pc = "input"
    /\ printed = <<"error: ", "KeyError">>
    /\ nplanned = 2 /\ ncalls = 1 /\ raisedAt = 0
    /\ everStored /\ nread = 1

\* C18: the loop ends only by the step that follows a read of the sentinel,
\* so the loop that has ended has read it; a read that raises is caught,
\* reported and followed by the next read, like an error of a query; and
\* once a read has returned the sentinel the loop ends.
C18_LoopExit ==
    /\ [](pc = "done" => (nread > 0 /\ lower(query) = Quit))
    /\ [][/\ (pc # "done" /\ pc' = "done") =>
               (pc = "read" /\ lower(strip(inp, Whitespace)) = Quit)
          /\ (pc = "input" /\ pc' # "read") =>
               /\ pc' = "input"
               /\ nread' = nread + 1
               /\ outcome' = "error"
               /\ printed' = <<"error: ", "EOFError">>
          /\ (pc \in {"planning", "exec", "calling"} /\ outcome' = "error") =>
               pc' = "input"
          /\ pc = "done" => pc' = "done"]_vars
    /\ ((pc = "read" /\ lower(strip(inp, Whitespace)) = Quit) ~> (pc = "done"))

\* the first read raised, the error was reported, and the second read
\* returned the sentinel: the loop has ended
C18_Witness ==
    /\ pc = "done" /\ nread = 2
    /\ outcome = "error" /\ printed = <<"error: ", "EOFError">>
    /\ lower(query) = Quit

====
